---- MODULE Spec2Model ----
(***************************************************************************)
(* Model of aggregate/underwriter.py: the Underwriter knowledge store      *)
(* (__getitem__, safe_lookup), the line-by-line interpreter                *)
(* (interpret_program), the object factory (factory) and the two entry     *)
(* points write and build.                                                 *)
(*                                                                         *)
(* Python objects that are shared by reference are kept on two heaps:      *)
(* dicts (specification dictionaries) and lists (list values held inside   *)
(* a dictionary).  A value of kind "dict reference" or "list reference" is *)
(* an index into the corresponding heap, so that a shallow copy, an        *)
(* in-place change and an alias are different things in the model, as they *)
(* are in the program.                                                     *)
(***************************************************************************)
EXTENDS Integers, Sequences, FiniteSets, TLC

VARIABLES
    uw,         \* the settings of the Underwriter: self.update, self.log2
    knowledge,  \* self._knowledge: (kind, name) -> [spec: dict ref, program: line]
    dicts,      \* heap of dict objects (sequence; a dict ref is an index)
    lists,      \* heap of list objects (sequence; a list ref is an index)
    pc,         \* "idle", or "interp" inside the loop of interpret_program
    call,       \* the running call: its operation, remaining lines, rv, arguments
    ret,        \* how the last call ended: returned value or raised exception,
                \* with its argument and the knowledge it started from
    events,     \* calls made to the collaborators by the current/last call
    nwork       \* program lines handed over so far, plus direct safe_lookup calls

vars == <<uw, knowledge, dicts, lists, pc, call, ret, events, nwork>>

(***************************************************************************)
(* Bounds of the model.                                                    *)
(***************************************************************************)
MaxWork == 3        \* program lines plus direct safe_lookup calls, in one run

(***************************************************************************)
(* Values.                                                                 *)
(***************************************************************************)
\* mixture weights are held in tenths: One is the weight 1, Half the weight 0.5
One == 10
Half == One \div 2

None == [cls |-> "None"]

Answer(kind, name, spec, program, object) ==
    [kind |-> kind, name |-> name, spec |-> spec, program |-> program,
     object |-> object]

Ok(v) == [status |-> "ok", exc |-> "", err |-> "", value |-> v]
Raise(exc, err) == [status |-> "raise", exc |-> exc, err |-> err, value |-> <<>>]

StrItem(name) == [type |-> "str", name |-> name, key |-> <<>>]
TupleItem(kind, name) == [type |-> "tuple", name |-> "", key |-> <<kind, name>>]
OtherItem == [type |-> "int", name |-> "", key |-> <<>>]

(***************************************************************************)
(* __getitem__: the rows matching item, and the Answer or the error.       *)
(***************************************************************************)
RowsAnyKind(kn, item) ==
    IF item.type = "str"
    THEN {id \in DOMAIN kn : id[2] = item.name}
    ELSE {id \in DOMAIN kn : item.key # <<>> /\ id[2] = item.key[2]}

Rows(kn, item) ==
    IF item.type = "str"
    THEN {id \in DOMAIN kn : id[2] = item.name}
    ELSE {id \in DOMAIN kn : id = item.key}

GetItemFirstRow(kn, item) ==
    IF item.type \notin {"str", "tuple"}
    THEN Raise("ValueError", "BadItem")
    ELSE LET rows == Rows(kn, item) IN
         IF rows = {}
         THEN Raise("KeyError", "NotFound")
         ELSE LET id == CHOOSE r \in rows : TRUE IN
              Ok(Answer(id[1], id[2], kn[id].spec, kn[id].program, None))

GetItem(kn, item) ==
    IF item.type \notin {"str", "tuple"}
    THEN Raise("ValueError", "BadItem")
    ELSE LET rows == Rows(kn, item) IN
         IF rows = {}
         THEN Raise("KeyError", "NotFound")
         ELSE IF Cardinality(rows) = 1
              THEN LET id == CHOOSE r \in rows : TRUE IN
                   Ok(Answer(id[1], id[2], kn[id].spec, kn[id].program, None))
              ELSE Raise("KeyError", "Ambiguous")

(***************************************************************************)
(* str.split('.') on a reference given as a sequence of words and dots.    *)
(***************************************************************************)
Dot == "."

RECURSIVE SplitFrom(_, _, _)
SplitFrom(s, cur, acc) ==
    IF s = <<>> THEN Append(acc, cur)
    ELSE IF Head(s) = Dot
         THEN SplitFrom(Tail(s), "", Append(acc, cur))
         ELSE SplitFrom(Tail(s), Head(s), acc)

Split(s) == SplitFrom(s, "", <<>>)

(***************************************************************************)
(* dict.copy(): a new dict object with the same entries; the values that   *)
(* are list references still name the same list objects.                   *)
(***************************************************************************)
DictCopy(ds, r) == Append(ds, ds[r])

(***************************************************************************)
(* safe_lookup: the outcome and the dict heap after the call.              *)
(***************************************************************************)
\* a reference of one word is looked up with an empty name
SafeLookupNoUnpack(kn, ds, buildinid) ==
    LET parts == Split(buildinid)
        kind == parts[1]
        name == IF Len(parts) >= 2 THEN parts[2] ELSE ""
        g == GetItem(kn, TupleItem(kind, name))
    IN IF g.status = "raise"
       THEN [res |-> Raise(g.exc, g.err), ds |-> ds]
       ELSE [res |-> Ok(Len(ds) + 1), ds |-> DictCopy(ds, g.value.spec)]

SafeLookup(kn, ds, buildinid) ==
    LET parts == Split(buildinid) IN
    IF Len(parts) # 2
    THEN [res |-> Raise("ValueError", "MalformedReference"), ds |-> ds]
    ELSE LET kind == parts[1]
             name == parts[2]
             g == GetItem(kn, TupleItem(kind, name))
         IN IF g.status = "raise"
            THEN [res |-> Raise(g.exc, g.err), ds |-> ds]
            ELSE IF g.value.kind # kind
                 THEN [res |-> Raise("ValueError", "KindMismatch"), ds |-> ds]
                 ELSE [res |-> Ok(Len(ds) + 1), ds |-> DictCopy(ds, g.value.spec)]

(***************************************************************************)
(* Program text.  A normalized statement line is kept as what the grammar  *)
(* reads out of it: the kind and name it declares, the reference it makes  *)
(* (a kind.name word sequence, <<>> if none), its scalar attributes, its   *)
(* list-valued attributes, and whether the parser rejects it.              *)
(***************************************************************************)
Line(kind, name, fault, ref, attrs, seqs) ==
    [kind |-> kind, name |-> name, fault |-> fault, ref |-> ref,
     attrs |-> attrs, seqs |-> seqs]

Blank == Line("", "", "blank", <<>>, [name |-> ""], <<>>)

\* lexer.preprocess: only lines of length > 0 are returned
Preprocess(text) == SelectSeq(text, LAMBDA l : l.fault # "blank")

SeqKeys == <<"sev_xs", "freq_a">>

RECURSIVE AllocSeqs(_, _, _, _)
AllocSeqs(d, ls, seqs, keys) ==
    IF keys = <<>> THEN [d |-> d, ls |-> ls]
    ELSE LET k == Head(keys) IN
         IF k \in DOMAIN seqs
         THEN AllocSeqs((k :> (Len(ls) + 1)) @@ d, Append(ls, seqs[k]), seqs, Tail(keys))
         ELSE AllocSeqs(d, ls, seqs, Tail(keys))

(***************************************************************************)
(* parser.parse(lexer.tokenize(line)): the (kind, name, spec) triple or    *)
(* the error, with the heaps after it.  A reference is resolved through    *)
(* safe_lookup; the entries of the copy it returns are taken over into the *)
(* new specification (a portfolio embeds it as a (kind, name, spec)        *)
(* triple of its list instead).                                            *)
(***************************************************************************)
Parse(kn, ds, ls, line) ==
    IF line.fault = "token"
    THEN [res |-> Raise("ValueError", "ParseError"), ds |-> ds, ls |-> ls, evs |-> <<>>]
    ELSE IF line.fault = "text"
    THEN [res |-> Raise("ValueError", "ParseErrorText"), ds |-> ds, ls |-> ls, evs |-> <<>>]
    ELSE
    LET hasref == line.ref # <<>>
        sl == IF hasref THEN SafeLookup(kn, ds, line.ref)
              ELSE [res |-> Ok(0), ds |-> ds]
        evs == IF hasref THEN << <<"safe_lookup", line.ref>> >> ELSE <<>>
    IN
    IF sl.res.status = "raise"
    THEN [res |-> sl.res, ds |-> sl.ds, ls |-> ls, evs |-> evs]
    ELSE IF line.kind = "port"
    THEN LET ds1 == IF hasref THEN sl.ds ELSE Append(ds, line.attrs)
             parts == Split(line.ref)
             triple == IF hasref
                       THEN [kind |-> parts[1], name |-> parts[2], spec |-> sl.res.value]
                       ELSE [kind |-> "agg", name |-> line.attrs.name, spec |-> Len(ds1)]
             a == AllocSeqs(line.attrs, ls, line.seqs, SeqKeys)
             ls2 == Append(a.ls, <<triple>>)
             d == ("spec" :> Len(ls2)) @@ [name |-> line.name]
         IN [res |-> Ok([kind |-> line.kind, name |-> line.name, spec |-> Len(ds1) + 1]),
             ds |-> Append(IF hasref THEN ds1 ELSE [ds1 EXCEPT ![Len(ds1)] = a.d], d),
             ls |-> ls2, evs |-> evs]
    ELSE LET base == IF hasref THEN line.attrs @@ sl.ds[sl.res.value] ELSE line.attrs
             a == AllocSeqs(base, ls, line.seqs, SeqKeys)
         IN [res |-> Ok([kind |-> line.kind, name |-> line.name, spec |-> Len(sl.ds) + 1]),
             ds |-> Append(sl.ds, a.d), ls |-> a.ls, evs |-> evs]

(***************************************************************************)
(* The state after construction with databases=None: empty knowledge.      *)
(***************************************************************************)
\* the keyword arguments of a call of write or build, as the caller gave them
Params(update, log2, bs) == [update |-> update, log2 |-> log2, bs |-> bs]
NoParams == Params(FALSE, 0, 0)

NoCall == [op |-> "none", arg |-> <<>>, par |-> NoParams, before |-> <<>>,
           lines |-> <<>>, rv |-> <<>>, update |-> FALSE, log2 |-> 0, bs |-> 0]

Running(op, arg, par, kn) ==
    [op |-> op, arg |-> arg, par |-> par, before |-> kn, status |-> "running",
     exc |-> "", err |-> "", value |-> <<>>]
Ended(op, arg, par, kn, res) == [op |-> op, arg |-> arg, par |-> par, before |-> kn] @@ res

\* Underwriter(update=update, log2=log2): log2 <= 0 raises ValueError
Settings(update, log2) == [update |-> update, log2 |-> log2]

DefaultLog2 == 10

Init ==
    /\ uw = Settings(FALSE, DefaultLog2)
    /\ knowledge = <<>>
    /\ dicts = <<>>
    /\ lists = <<>>
    /\ pc = "idle"
    /\ call = NoCall
    /\ ret = Ended("init", <<>>, NoParams, <<>>, Ok(<<>>))
    /\ events = <<>>
    /\ nwork = 0

InsertIfAbsent(kn, id, rec) ==
    [i \in DOMAIN kn \cup {id} |-> IF i \in DOMAIN kn THEN kn[i] ELSE rec]

\* the record takes the place of every record of its name
InsertDropsSameName(kn, id, rec) ==
    [i \in {j \in DOMAIN kn : j[2] # id[2]} \cup {id} |-> IF i = id THEN rec ELSE kn[i]]

\* self._knowledge.loc[(kind, name), :] = [spec, program_line]
Insert(kn, id, rec) == [i \in DOMAIN kn \cup {id} |-> IF i = id THEN rec ELSE kn[i]]

(***************************************************************************)
(* interpret_program: entry, one iteration of the loop over the lines,     *)
(* and the return of rv.                                                   *)
(***************************************************************************)
Texts(L, maxlen) == UNION {[1..n -> L] : n \in 0..maxlen}

EnterProgram(op, text, par, update, log2, bs) ==
    LET lines == Preprocess(text) IN
    /\ pc' = "interp"
    /\ call' = [op |-> op, arg |-> text, par |-> par, before |-> knowledge,
                lines |-> lines, rv |-> <<>>, update |-> update, log2 |-> log2,
                bs |-> bs]
    /\ ret' = Running(op, text, par, knowledge)
    /\ nwork' = nwork + Len(text)

InterpretBegin(L, max) ==
    \E text \in Texts(L, max - nwork) :
        /\ pc = "idle"
        /\ EnterProgram("interpret_program", text, NoParams, FALSE, 0, 0)
        /\ events' = <<>>
        /\ UNCHANGED <<uw, knowledge, dicts, lists>>

\* the statement is skipped and the loop goes on
StepSkips(p, evs) ==
    /\ call' = [call EXCEPT !.lines = Tail(@)]
    /\ events' = evs
    /\ dicts' = p.ds
    /\ lists' = p.ls
    /\ UNCHANGED <<knowledge, pc, ret>>

\* the failed call takes back what it had stored
StepFailsRollsBack(p, evs) ==
    /\ pc' = "idle"
    /\ call' = NoCall
    /\ ret' = Ended(call.op, call.arg, call.par, call.before, p.res)
    /\ events' = evs
    /\ dicts' = p.ds
    /\ lists' = p.ls
    /\ knowledge' = call.before

\* except ValueError: log and raise e; any other exception leaves the loop as well
StepFails(p, evs) ==
    /\ pc' = "idle"
    /\ call' = NoCall
    /\ ret' = Ended(call.op, call.arg, call.par, call.before, p.res)
    /\ events' = evs
    /\ dicts' = p.ds
    /\ lists' = p.ls
    /\ UNCHANGED knowledge

\* the Answer is put in front of rv
StepInsertsInFront(p, evs, program_line) ==
    LET kind == p.res.value.kind
        name == p.res.value.name
        spec == p.res.value.spec
    IN /\ knowledge' = Insert(knowledge, <<kind, name>>,
                              [spec |-> spec, program |-> program_line])
       /\ call' = [call EXCEPT
                     !.lines = Tail(@),
                     !.rv = <<Answer(kind, name, spec, program_line, None)>> \o @]
       /\ events' = Append(evs, <<"insert", <<kind, name>> >>)
       /\ dicts' = p.ds
       /\ lists' = p.ls
       /\ UNCHANGED <<pc, ret>>

\* else: store in the knowledge and append the Answer to rv
StepInserts(p, evs, program_line) ==
    LET kind == p.res.value.kind
        name == p.res.value.name
        spec == p.res.value.spec
    IN /\ knowledge' = Insert(knowledge, <<kind, name>>,
                              [spec |-> spec, program |-> program_line])
       /\ call' = [call EXCEPT
                     !.lines = Tail(@),
                     !.rv = Append(@, Answer(kind, name, spec, program_line, None))]
       /\ events' = Append(evs, <<"insert", <<kind, name>> >>)
       /\ dicts' = p.ds
       /\ lists' = p.ls
       /\ UNCHANGED <<pc, ret>>

\* references are resolved in the knowledge the call started from
InterpretStepStale ==
    /\ pc = "interp"
    /\ call.lines # <<>>
    /\ LET program_line == Head(call.lines)
           p == Parse(call.before, dicts, lists, program_line)
           evs == Append(events, <<"parse", program_line>>) \o p.evs
       IN IF p.res.status = "raise"
          THEN StepFails(p, evs)
          ELSE StepInserts(p, evs, program_line)
    /\ UNCHANGED <<uw, nwork>>

InterpretStep ==
    /\ pc = "interp"
    /\ call.lines # <<>>
    /\ LET program_line == Head(call.lines)
           p == Parse(knowledge, dicts, lists, program_line)
           evs == Append(events, <<"parse", program_line>>) \o p.evs
       IN IF p.res.status = "raise"
          THEN StepFails(p, evs)
          ELSE StepInserts(p, evs, program_line)
    /\ UNCHANGED <<uw, nwork>>

InterpretReturn ==
    /\ pc = "interp"
    /\ call.op = "interpret_program"
    /\ call.lines = <<>>
    /\ pc' = "idle"
    /\ ret' = Ended(call.op, call.arg, call.par, call.before, Ok(call.rv))
    /\ call' = NoCall
    /\ UNCHANGED <<uw, knowledge, dicts, lists, events, nwork>>

(***************************************************************************)
(* Calls from outside: uw[item], uw.safe_lookup(ref), and what a caller    *)
(* can do to the dict safe_lookup handed back.                             *)
(***************************************************************************)
LookupItem(items) ==
    \E item \in items :
        /\ pc = "idle"
        /\ ret' = Ended("getitem", item, NoParams, knowledge, GetItem(knowledge, item))
        /\ events' = <<>>
        /\ UNCHANGED <<uw, knowledge, dicts, lists, pc, call, nwork>>

Resolve(refs, max) ==
    \E buildinid \in refs :
        /\ pc = "idle"
        /\ nwork < max
        /\ LET sl == SafeLookup(knowledge, dicts, buildinid) IN
           /\ dicts' = sl.ds
           /\ ret' = Ended("safe_lookup", buildinid, NoParams, knowledge, sl.res)
        /\ events' = <<>>
        /\ nwork' = nwork + 1
        /\ UNCHANGED <<uw, knowledge, lists, pc, call>>

ListKeys == {"sev_xs", "freq_a", "spec"}

Resolved == pc = "idle" /\ ret.op = "safe_lookup" /\ ret.status = "ok"

\* spec['sev_wt'] = w on the returned dict
MutateTop ==
    /\ Resolved
    /\ \E w \in {One, Half} :
          /\ ("sev_wt" :> w) @@ dicts[ret.value] # dicts[ret.value]
          /\ dicts' = [dicts EXCEPT ![ret.value] = ("sev_wt" :> w) @@ @]
    /\ UNCHANGED <<uw, knowledge, lists, pc, call, ret, events, nwork>>

\* spec[k].pop() on a list held by the returned dict
MutateNested ==
    /\ Resolved
    /\ \E k \in DOMAIN dicts[ret.value] \cap ListKeys :
          LET l == dicts[ret.value][k] IN
          /\ lists[l] # <<>>
          /\ lists' = [lists EXCEPT ![l] = SubSeq(@, 1, Len(@) - 1)]
    /\ UNCHANGED <<uw, knowledge, dicts, pc, call, ret, events, nwork>>

(***************************************************************************)
(* The knowledge store on its own: programs are interpreted, items are     *)
(* looked up and references resolved.                                      *)
(***************************************************************************)
SevRef(n) == <<"sev", Dot, n>>
AggRef(n) == <<"agg", Dot, n>>
PortRef(n) == <<"port", Dot, n>>

StoreLines ==
    { Line("sev", "X", "none", <<>>,
           [name |-> "X", sev_name |-> "dhistogram", sev_wt |-> Half],
           [sev_xs |-> <<10, 20, 30>>]),
      Line("sev", "X", "none", <<>>,
           [name |-> "X", sev_name |-> "dhistogram"], [sev_xs |-> <<1>>]),
      Line("agg", "X", "none", SevRef("X"),
           [name |-> "X", freq_name |-> "fixed", exp_en |-> 5], <<>>),
      Line("port", "Y", "none", <<>>,
           [name |-> "A", sev_name |-> "lognorm", freq_name |-> "poisson", exp_en |-> 2],
           <<>>),
      Line("agg", "Y", "token", <<>>, [name |-> "Y"], <<>>),
      Blank }

StoreRefs ==
    { SevRef("X"), AggRef("X"), AggRef("Y"), PortRef("Y"), <<"X">>,
      <<"sev", Dot, "X", Dot, "Y">>, <<"loss", Dot, "X">> }

Kinds == {"agg", "port", "sev", "distortion"}
Names == {"X", "Y"}

StoreItems ==
    {StrItem(n) : n \in Names} \cup {TupleItem(k, n) : k \in Kinds, n \in Names}
        \cup {OtherItem}

NextStore ==
    \/ InterpretBegin(StoreLines, MaxWork)
    \/ InterpretStep
    \/ InterpretReturn
    \/ LookupItem(StoreItems)
    \/ Resolve(StoreRefs, MaxWork)
    \/ MutateTop
    \/ MutateNested

SpecStore == Init /\ [][NextStore]_vars

(***************************************************************************)
(* factory: the Answer with its object filled in.  An Aggregate, Severity  *)
(* or Distortion is built from the entries of the spec dict, a Portfolio   *)
(* from its name and the list of the embedded spec dicts.  For             *)
(* any other kind the ValueError is built but not raised, and the object   *)
(* the Answer came with is put back.                                       *)
(***************************************************************************)
Factory(ds, ls, answer) ==
    LET kind == answer.kind
        spec == ds[answer.spec]
        program == answer.program
        obj == IF kind = "agg"
               THEN [cls |-> "Aggregate", program |-> program, args |-> spec]
               ELSE IF kind = "port"
               THEN [cls |-> "Portfolio", program |-> program, name |-> answer.name,
                     agg_list |-> [i \in DOMAIN ls[spec.spec] |-> ls[spec.spec][i].spec]]
               ELSE IF kind = "sev"
               THEN IF "sev_wt" \in DOMAIN spec /\ spec.sev_wt # One
                    THEN None
                    ELSE [cls |-> "Severity", program |-> program, args |-> spec]
               ELSE IF kind = "distortion"
               THEN [cls |-> "Distortion", program |-> program, args |-> spec]
               ELSE answer.object
    IN [answer EXCEPT !.object = obj]

(***************************************************************************)
(* The objects.  Aggregate and Portfolio have an update method, Severity   *)
(* and Distortion have none.  How an update ends is decided by the         *)
(* specification the object was built from: a degenerate specification     *)
(* names the exception its update raises.                                  *)
(***************************************************************************)
HasUpdate(obj) == obj.cls \in {"Aggregate", "Portfolio"}

UpdateOutcome(ds, obj) ==
    IF obj.cls = "Aggregate"
    THEN IF "fails" \in DOMAIN obj.args THEN obj.args.fails ELSE "ok"
    ELSE LET bad == {i \in DOMAIN obj.agg_list : "fails" \in DOMAIN ds[obj.agg_list[i]]} IN
         IF bad = {} THEN "ok"
         ELSE ds[obj.agg_list[CHOOSE i \in bad : \A j \in bad : i <= j]].fails

\* bucket widths are whole numbers of the smallest width in use
RecommendBucket(obj, log2) == 3 * log2 + 7
BestBucket(obj, log2) == log2 + 1

RECURSIVE RoundBucket(_)
RoundBucket(b) == IF b < 2 THEN 1 ELSE 2 * RoundBucket(b \div 2)

(***************************************************************************)
(* The program text as an item of the knowledge: a text that is one bare   *)
(* word is that name; any other text is a string no record is named by.    *)
(***************************************************************************)
NameLine(n) == Line("", n, "token", <<>>, [name |-> n], <<>>)

ProgramItem(text) ==
    IF Len(text) = 1 /\ text[1].kind = "" /\ text[1].fault # "blank"
    THEN StrItem(text[1].name)
    ELSE StrItem("")

(***************************************************************************)
(* write, after the lookup of the text as a name.                          *)
(***************************************************************************)
\* if update is None: update = self.update
WriteUpdate(update) == IF update = "None" THEN uw.update ELSE update = "True"

\* if update is True and log2 == 0: log2 = self.log2
WriteLog2(update, log2) == IF WriteUpdate(update) /\ log2 = 0 THEN uw.log2 ELSE log2

\* the result is made without the program line of the record
WriteFoundNoSource(ds, ls, answer, upd, log2, bs) ==
    [res |-> Ok(<<Factory(ds, ls, [answer EXCEPT !.program = Blank])>>),
     evs |-> << <<"factory", 1>> >>]

\* the name was found: factory, then answer.object.update if update is set
WriteFound(ds, ls, answer, upd, log2, bs) ==
    LET a == Factory(ds, ls, answer)
        evs == << <<"factory", 1>> >>
    IN IF ~upd THEN [res |-> Ok(<<a>>), evs |-> evs]
       ELSE IF ~HasUpdate(a.object)
       THEN [res |-> Raise("AttributeError", "NoUpdate"), evs |-> evs]
       ELSE LET o == UpdateOutcome(ds, a.object) IN
            [res |-> IF o = "ok" THEN Ok(<<a>>) ELSE Raise(o, "UpdateFailure"),
             evs |-> Append(evs, <<"update", 1, log2, bs, o>>)]

\* the loop over the interpreter's answers
RECURSIVE WriteLoop(_, _, _, _, _, _, _, _)
WriteLoop(ds, ls, irv, i, upd, log2, bs, acc) ==
    IF i > Len(irv) THEN [res |-> Ok(acc.rv), evs |-> acc.evs]
    ELSE LET a == Factory(ds, ls, irv[i])
             evs1 == Append(acc.evs, <<"factory", i>>)
             calls == a.object # None /\ upd /\ HasUpdate(a.object)
             o == IF calls THEN UpdateOutcome(ds, a.object) ELSE "ok"
             evs2 == IF calls THEN Append(evs1, <<"update", i, log2, bs, o>>) ELSE evs1
         IN IF o # "ok"
            THEN [res |-> Raise(o, "UpdateFailure"), evs |-> evs2]
            ELSE WriteLoop(ds, ls, irv, i + 1, upd, log2, bs,
                           [rv |-> Append(acc.rv, a), evs |-> evs2])

(***************************************************************************)
(* build: the parameters of the update of one Aggregate.                   *)
(***************************************************************************)
SeqMax(q) == CHOOSE x \in {q[i] : i \in DOMAIN q} : \A i \in DOMAIN q : q[i] <= x

\* the whole part of the square root
RECURSIVE Isqrt(_)
Isqrt(n) ==
    IF n < 2 THEN n
    ELSE LET r == 2 * Isqrt(n \div 4) IN
         IF (r + 1) * (r + 1) > n THEN r ELSE r + 1

\* the expected count is used for an empirical frequency as well
IntMaxLossByCount(d, ls) ==
    LET m == SeqMax(ls[d.sev_xs])
        en == d.exp_en
    IN IF d.freq_name \in {"fixed", "empirical"} THEN m * en
       ELSE m * en + Isqrt(9 * m * m * en * en * en)

\* int(max_loss)
IntMaxLoss(d, ls) ==
    LET m == SeqMax(ls[d.sev_xs])
        en == d.exp_en
    IN IF d.freq_name = "fixed" THEN m * en
       ELSE IF d.freq_name = "empirical" THEN m * SeqMax(ls[d.freq_a])
       \* m * en * (1 + 3 * en ** 0.5), truncated
       ELSE m * en + Isqrt(9 * m * m * en * en * en)

\* len(bin(n)) for n >= 0: '0b' and the binary digits
RECURSIVE BinDigits(_)
BinDigits(n) == IF n < 2 THEN 1 ELSE 1 + BinDigits(n \div 2)

BinLen(n) == 2 + BinDigits(n)

\* the exponent is the bit length of the truncated estimate
DiscreteLog2BitLength(max_loss) == BinLen(max_loss) - 2

\* the exponent is the whole part of the binary logarithm of the estimate
DiscreteLog2Floor(max_loss) == BinLen(max_loss) - 3

\* log2_ = len(bin(int(max_loss))) - 1
DiscreteLog2(max_loss) == BinLen(max_loss) - 1

IsDiscrete(d, log2) == d.sev_name = "dhistogram" /\ log2 = 0

AggregateLog2(d, ls, log2) ==
    IF IsDiscrete(d, log2) THEN DiscreteLog2(IntMaxLoss(d, ls))
    ELSE IF log2 = 0 THEN uw.log2 ELSE log2

\* the recommended bucket is passed on as it is
AggregateBsUnrounded(d, ls, obj, log2, bs) ==
    IF IsDiscrete(d, log2) THEN 1
    ELSE IF bs = 0 THEN RecommendBucket(obj, AggregateLog2(d, ls, log2))
    ELSE bs

AggregateBs(d, ls, obj, log2, bs) ==
    IF IsDiscrete(d, log2) THEN 1
    ELSE IF bs = 0 THEN RoundBucket(RecommendBucket(obj, AggregateLog2(d, ls, log2)))
    ELSE bs

PortfolioDefaultLog2 == 13

PortfolioLog2(log2) == IF log2 = -1 THEN PortfolioDefaultLog2 ELSE log2

\* best_bucket is asked with the caller's log2, not with the one used
PortfolioBsCallerLog2(obj, log2, bs) ==
    IF bs = 0 THEN BestBucket(obj, log2) ELSE bs

PortfolioBs(obj, log2, bs) ==
    IF bs = 0 THEN BestBucket(obj, PortfolioLog2(log2)) ELSE bs

(***************************************************************************)
(* build: the loop over rv that updates the objects.  The update of an     *)
(* Aggregate is inside try/except ZeroDivisionError, AttributeError; the   *)
(* update of a Portfolio is not inside any try.                            *)
(***************************************************************************)
\* the objects are updated whatever update says
RECURSIVE BuildLoopAlwaysUpdates(_, _, _, _, _, _, _, _)
BuildLoopAlwaysUpdates(ds, ls, rv, i, update, log2, bs, evs) ==
    IF i > Len(rv) THEN [res |-> Ok(rv), evs |-> evs]
    ELSE LET obj == rv[i].object
             d == ds[rv[i].spec]
         IN
         IF obj = None
         THEN BuildLoopAlwaysUpdates(ds, ls, rv, i + 1, update, log2, bs, evs)
         ELSE IF obj.cls = "Aggregate"
         THEN LET o == UpdateOutcome(ds, obj)
                  ev == <<"update", i, AggregateLog2(d, ls, log2),
                          AggregateBs(d, ls, obj, log2, bs), o>>
              IN IF o \in {"ok", "ZeroDivisionError", "AttributeError"}
                 THEN BuildLoopAlwaysUpdates(ds, ls, rv, i + 1, update, log2, bs,
                                             Append(evs, ev))
                 ELSE [res |-> Raise(o, "UpdateFailure"), evs |-> Append(evs, ev)]
         ELSE IF obj.cls = "Portfolio"
         THEN LET o == UpdateOutcome(ds, obj)
                  ev == <<"update", i, PortfolioLog2(log2), PortfolioBs(obj, log2, bs), o>>
              IN IF o = "ok"
                 THEN BuildLoopAlwaysUpdates(ds, ls, rv, i + 1, update, log2, bs,
                                             Append(evs, ev))
                 ELSE [res |-> Raise(o, "UpdateFailure"), evs |-> Append(evs, ev)]
         ELSE BuildLoopAlwaysUpdates(ds, ls, rv, i + 1, update, log2, bs, evs)

RECURSIVE BuildLoop(_, _, _, _, _, _, _, _)
BuildLoop(ds, ls, rv, i, update, log2, bs, evs) ==
    IF i > Len(rv) THEN [res |-> Ok(rv), evs |-> evs]
    ELSE LET obj == rv[i].object
             d == ds[rv[i].spec]
         IN
         IF obj = None
         THEN BuildLoop(ds, ls, rv, i + 1, update, log2, bs, evs)
         ELSE IF obj.cls = "Aggregate" /\ update
         THEN LET o == UpdateOutcome(ds, obj)
                  ev == <<"update", i, AggregateLog2(d, ls, log2),
                          AggregateBs(d, ls, obj, log2, bs), o>>
              IN IF o \in {"ok", "ZeroDivisionError", "AttributeError"}
                 THEN BuildLoop(ds, ls, rv, i + 1, update, log2, bs, Append(evs, ev))
                 ELSE [res |-> Raise(o, "UpdateFailure"), evs |-> Append(evs, ev)]
         ELSE IF obj.cls = "Portfolio" /\ update
         THEN LET o == UpdateOutcome(ds, obj)
                  ev == <<"update", i, PortfolioLog2(log2), PortfolioBs(obj, log2, bs), o>>
              IN IF o = "ok"
                 THEN BuildLoop(ds, ls, rv, i + 1, update, log2, bs, Append(evs, ev))
                 ELSE [res |-> Raise(o, "UpdateFailure"), evs |-> Append(evs, ev)]
         ELSE BuildLoop(ds, ls, rv, i + 1, update, log2, bs, evs)

(***************************************************************************)
(* build: what is handed back for rv.                                      *)
(***************************************************************************)
\* the object is handed back whether or not there is one
ObjectOnly(answer) == [shape |-> "object", item |-> answer.object]

ObjectOrAnswer(answer) ==
    IF answer.object = None
    THEN [shape |-> "answer", item |-> answer]
    ELSE [shape |-> "object", item |-> answer.object]

PortsFound(rv) == Cardinality({i \in DOMAIN rv : rv[i].kind = "port"})

\* any number of Portfolios, not exactly one, picks a single result
CollapseAnyPort(rv) ==
    IF Len(rv) = 1 THEN ObjectOrAnswer(rv[1])
    ELSE IF PortsFound(rv) >= 1
         THEN ObjectOrAnswer(rv[Len(rv)])
         ELSE [shape |-> "list", item |-> rv]

Collapse(rv) ==
    IF Len(rv) = 1 THEN ObjectOrAnswer(rv[1])
    ELSE IF PortsFound(rv) = 1
         \* answer is what the counting loop left in it: the last element of rv
         THEN ObjectOrAnswer(rv[Len(rv)])
         ELSE [shape |-> "list", item |-> rv]

\* nothing to build: the empty list is handed back
BuildResultEmptyList(ds, ls, rv, update, log2, bs, evs) ==
    LET b == BuildLoop(ds, ls, rv, 1, update, log2, bs, evs) IN
    IF b.res.status = "raise" THEN b
    ELSE IF Len(rv) = 0
         THEN [res |-> Ok([shape |-> "list", item |-> rv, rv |-> rv]), evs |-> b.evs]
         ELSE [res |-> Ok(Collapse(rv) @@ [rv |-> rv]), evs |-> b.evs]

BuildResult(ds, ls, rv, update, log2, bs, evs) ==
    IF Len(rv) = 0
    THEN [res |-> Ok([shape |-> "None", item |-> <<>>, rv |-> rv]), evs |-> evs]
    ELSE LET b == BuildLoop(ds, ls, rv, 1, update, log2, bs, evs) IN
         IF b.res.status = "raise" THEN b
         ELSE [res |-> Ok(Collapse(rv) @@ [rv |-> rv]), evs |-> b.evs]

(***************************************************************************)
(* The actions of write and build.  Each first looks the text up as a      *)
(* name; if that fails the text is interpreted line by line.               *)
(***************************************************************************)
\* only the not-found error is caught
SwallowsNotFound(g) == g.err = "NotFound"

\* except (LookupError, TypeError): the text is processed as a program
LookupSwallowed(g) == g.exc \in {"KeyError", "IndexError", "TypeError"}

Finish(op, arg, par, r) ==
    /\ pc' = "idle"
    /\ call' = NoCall
    /\ ret' = Ended(op, arg, par, knowledge, r.res)
    /\ events' = r.evs

WriteBegin(L, max, Updates, Log2s, Bss) ==
    \E text \in Texts(L, max - nwork), update \in Updates, log2 \in Log2s, bs \in Bss :
        /\ pc = "idle"
        /\ LET g == GetItem(knowledge, ProgramItem(text)) IN
           IF g.status = "ok"
           THEN /\ Finish("write", text, Params(update, log2, bs),
                          WriteFound(dicts, lists, g.value, WriteUpdate(update),
                                     WriteLog2(update, log2), bs))
                /\ nwork' = nwork + Len(text)
           ELSE IF LookupSwallowed(g)
           THEN /\ EnterProgram("write", text, Params(update, log2, bs),
                                WriteUpdate(update), WriteLog2(update, log2), bs)
                /\ events' = <<>>
           ELSE /\ Finish("write", text, Params(update, log2, bs),
                          [res |-> Raise(g.exc, g.err), evs |-> <<>>])
                /\ nwork' = nwork + Len(text)
        /\ UNCHANGED <<uw, knowledge, dicts, lists>>

WriteReturn ==
    /\ pc = "interp"
    /\ call.op = "write"
    /\ call.lines = <<>>
    /\ LET w == WriteLoop(dicts, lists, call.rv, 1, call.update, call.log2, call.bs,
                          [rv |-> <<>>, evs |-> events])
       IN /\ pc' = "idle"
          /\ call' = NoCall
          /\ ret' = Ended("write", call.arg, call.par, call.before, w.res)
          /\ events' = w.evs
    /\ UNCHANGED <<uw, knowledge, dicts, lists, nwork>>

\* rv = self.write(program, update=False, force_severity=True), then the rest
BuildBegin(L, max, Log2s, Bss) ==
    \E text \in Texts(L, max - nwork), update \in BOOLEAN, log2 \in Log2s, bs \in Bss :
        /\ pc = "idle"
        /\ LET g == GetItem(knowledge, ProgramItem(text)) IN
           IF g.status = "ok"
           THEN LET w == WriteFound(dicts, lists, g.value, FALSE, 0, 0) IN
                /\ Finish("build", text, Params(update, log2, bs),
                          BuildResult(dicts, lists, w.res.value, update, log2, bs, w.evs))
                /\ nwork' = nwork + Len(text)
           ELSE IF LookupSwallowed(g)
           THEN /\ EnterProgram("build", text, Params(update, log2, bs),
                                update, log2, bs)
                /\ events' = <<>>
           ELSE /\ Finish("build", text, Params(update, log2, bs),
                          [res |-> Raise(g.exc, g.err), evs |-> <<>>])
                /\ nwork' = nwork + Len(text)
        /\ UNCHANGED <<uw, knowledge, dicts, lists>>

BuildReturn ==
    /\ pc = "interp"
    /\ call.op = "build"
    /\ call.lines = <<>>
    /\ LET w == WriteLoop(dicts, lists, call.rv, 1, FALSE, 0, 0,
                          [rv |-> <<>>, evs |-> events])
           b == BuildResult(dicts, lists, w.res.value, call.update, call.log2, call.bs,
                            w.evs)
       IN /\ pc' = "idle"
          /\ call' = NoCall
          /\ ret' = Ended("build", call.arg, call.par, call.before, b.res)
          /\ events' = b.evs
    /\ UNCHANGED <<uw, knowledge, dicts, lists, nwork>>

(***************************************************************************)
(* Programs written and built: severities (one of them a weighted mixture  *)
(* component), an aggregate, portfolios, a rejected line, and the bare     *)
(* names of what they declare.                                             *)
(***************************************************************************)
MaxBuild == 3       \* program lines handed to write and build, in one run

BuildLines ==
    { Line("sev", "S", "none", <<>>,
           [name |-> "S", sev_name |-> "lognorm", sev_wt |-> Half], <<>>),
      Line("sev", "T", "none", <<>>,
           [name |-> "T", sev_name |-> "lognorm", sev_wt |-> One], <<>>),
      Line("agg", "A", "none", <<>>,
           [name |-> "A", sev_name |-> "lognorm", freq_name |-> "poisson", exp_en |-> 2],
           <<>>),
      Line("port", "P", "none", <<>>,
           [name |-> "P1", sev_name |-> "lognorm", freq_name |-> "poisson", exp_en |-> 2],
           <<>>),
      Line("port", "Q", "none", <<>>,
           [name |-> "Q1", sev_name |-> "lognorm", freq_name |-> "poisson", exp_en |-> 3,
            fails |-> "ValueError"],
           <<>>),
      Line("agg", "B", "text", <<>>, [name |-> "B"], <<>>),
      Line("distortion", "D", "none", <<>>, [name |-> "D", dist_name |-> "ph"], <<>>),
      NameLine("S"), NameLine("P") }

InitBuild ==
    /\ uw \in {Settings(u, DefaultLog2) : u \in BOOLEAN}
    /\ knowledge = <<>>
    /\ dicts = <<>>
    /\ lists = <<>>
    /\ pc = "idle"
    /\ call = NoCall
    /\ ret = Ended("init", <<>>, NoParams, <<>>, Ok(<<>>))
    /\ events = <<>>
    /\ nwork = 0

NextBuild ==
    \/ WriteBegin(BuildLines, MaxBuild, {"None", "True", "False"}, {0}, {0})
    \/ BuildBegin(BuildLines, MaxBuild, {0}, {0})
    \/ InterpretStep
    \/ WriteReturn
    \/ BuildReturn

SpecBuild == InitBuild /\ [][NextBuild]_vars

(***************************************************************************)
(* One aggregate loaded from a database, then built by its name with and   *)
(* without update and with the caller's log2 and bs.                       *)
(***************************************************************************)
MaxEn == 5          \* largest expected claim count of the loaded aggregate

InferXs == {<<10, 20, 30>>, <<1>>, <<3, 2>>, <<8, 16>>}
InferFa == {<<0, 1, 2>>, <<4>>}

InferLines ==
    { Line("agg", "A", "none", <<>>,
           [name |-> "A", sev_name |-> sn, freq_name |-> fn, exp_en |-> en],
           [sev_xs |-> xs, freq_a |-> fa]) :
        sn \in {"dhistogram", "lognorm"}, fn \in {"fixed", "empirical", "poisson"},
        en \in 1..MaxEn, xs \in InferXs, fa \in InferFa }

\* the state after read_database has interpreted the one line of the database
Loaded(line) ==
    LET p == Parse(<<>>, <<>>, <<>>, line) IN
    /\ knowledge = Insert(<<>>, <<p.res.value.kind, p.res.value.name>>,
                          [spec |-> p.res.value.spec, program |-> line])
    /\ dicts = p.ds
    /\ lists = p.ls

InitInfer ==
    /\ uw = Settings(FALSE, DefaultLog2)
    /\ \E line \in InferLines : Loaded(line)
    /\ pc = "idle"
    /\ call = NoCall
    /\ ret = Ended("init", <<>>, NoParams, <<>>, Ok(<<>>))
    /\ events = <<>>
    /\ nwork = 0

NextInfer ==
    \/ BuildBegin({NameLine("A")}, MaxBuild, {-1, 0, 5}, {0, 2})
    \/ InterpretStep
    \/ BuildReturn

SpecInfer == InitInfer /\ [][NextInfer]_vars

(***************************************************************************)
(* Programs of aggregates and portfolios built with the caller's log2 and  *)
(* bs: two objects update cleanly, the update of the aggregate Z divides   *)
(* by zero and the update of the portfolio R hits a missing attribute.     *)
(***************************************************************************)
UpdateLines ==
    { Line("agg", "A", "none", <<>>,
           [name |-> "A", sev_name |-> "lognorm", freq_name |-> "poisson", exp_en |-> 2],
           <<>>),
      Line("agg", "Z", "none", <<>>,
           [name |-> "Z", sev_name |-> "lognorm", freq_name |-> "poisson", exp_en |-> 0,
            fails |-> "ZeroDivisionError"],
           <<>>),
      Line("port", "P", "none", <<>>,
           [name |-> "P1", sev_name |-> "lognorm", freq_name |-> "poisson", exp_en |-> 2],
           <<>>),
      Line("port", "R", "none", <<>>,
           [name |-> "R1", sev_name |-> "lognorm", freq_name |-> "poisson", exp_en |-> 3,
            fails |-> "AttributeError"],
           <<>>) }

NextUpdate ==
    \/ BuildBegin(UpdateLines, MaxBuild, {-1, 0, 5}, {0, 2})
    \/ InterpretStep
    \/ BuildReturn

SpecUpdate == Init /\ [][NextUpdate]_vars

(***************************************************************************)
(* uw.factory(answer) called from outside, with the Answer of a stored     *)
(* record or with an Answer of a kind the factory has no class for.        *)
(***************************************************************************)
FactoryCall(OtherKinds) ==
    \E id \in DOMAIN knowledge : \E kind \in {id[1]} \cup OtherKinds :
        /\ pc = "idle"
        /\ LET answer == Answer(kind, id[2], knowledge[id].spec, knowledge[id].program,
                                None)
           IN ret' = Ended("factory", answer, NoParams, knowledge,
                           Ok(Factory(dicts, lists, answer)))
        /\ events' = << <<"factory", 1>> >>
        /\ UNCHANGED <<uw, knowledge, dicts, lists, pc, call, nwork>>

(***************************************************************************)
(* What the caller of factory, write or build holds once the call has      *)
(* returned, and what it can do with it: set an entry of the spec of a     *)
(* returned Answer, or of a specification a Portfolio was made from.       *)
(***************************************************************************)
Constructed == pc = "idle" /\ ret.op \in {"factory", "write", "build"} /\ ret.status = "ok"

HeldAnswers ==
    IF ret.op = "factory" THEN <<ret.value>>
    ELSE IF ret.op = "write" THEN ret.value
    ELSE IF ret.value.shape = "list" THEN ret.value.item
    ELSE IF ret.value.shape = "answer" THEN <<ret.value.item>>
    ELSE <<>>

HeldObjects ==
    {HeldAnswers[i].object : i \in DOMAIN HeldAnswers}
        \cup (IF ret.op = "build" /\ ret.value.shape = "object"
              THEN {ret.value.item} ELSE {})

\* answer.spec['sev_wt'] = 0.5 on a returned Answer
MutateAnswerSpec(max) ==
    /\ Constructed
    /\ nwork < max
    /\ \E i \in DOMAIN HeldAnswers :
          LET r == HeldAnswers[i].spec IN
          /\ ("sev_wt" :> Half) @@ dicts[r] # dicts[r]
          /\ dicts' = [dicts EXCEPT ![r] = ("sev_wt" :> Half) @@ @]
    /\ nwork' = nwork + 1
    /\ UNCHANGED <<uw, knowledge, lists, pc, call, ret, events>>

\* spec['sev_wt'] = 0.5 on a specification of the agg_list of a Portfolio
MutateObjectSpec(max) ==
    /\ Constructed
    /\ nwork < max
    /\ \E obj \in {o \in HeldObjects : o.cls = "Portfolio"} :
          \E i \in DOMAIN obj.agg_list :
             LET r == obj.agg_list[i] IN
             /\ ("sev_wt" :> Half) @@ dicts[r] # dicts[r]
             /\ dicts' = [dicts EXCEPT ![r] = ("sev_wt" :> Half) @@ @]
    /\ nwork' = nwork + 1
    /\ UNCHANGED <<uw, knowledge, lists, pc, call, ret, events>>

(***************************************************************************)
(* Every operation of the Underwriter on one knowledge: programs are       *)
(* interpreted, written and built, items looked up, references resolved    *)
(* and objects made.  The name X is declared under two kinds.              *)
(***************************************************************************)
AllLines ==
    { Line("sev", "X", "none", <<>>,
           [name |-> "X", sev_name |-> "dhistogram"], [sev_xs |-> <<1>>]),
      Line("sev", "X", "none", <<>>,
           [name |-> "X", sev_name |-> "dhistogram"], [sev_xs |-> <<2, 3>>]),
      Line("agg", "X", "none", SevRef("X"),
           [name |-> "X", freq_name |-> "fixed", exp_en |-> 5], <<>>),
      Line("port", "Y", "none", <<>>,
           [name |-> "A", sev_name |-> "lognorm", freq_name |-> "poisson", exp_en |-> 2],
           <<>>),
      Line("agg", "Y", "token", <<>>, [name |-> "Y"], <<>>),
      NameLine("X"), NameLine("Y"), Blank }

AllItems == {StrItem("X"), TupleItem("port", "Y")}
AllRefs == {SevRef("X"), <<"X">>}
OtherKinds == {"expr"}

NextAll ==
    \/ InterpretBegin(AllLines, MaxWork)
    \/ WriteBegin(AllLines, MaxWork, {"None", "True"}, {0}, {0})
    \/ BuildBegin(AllLines, MaxWork, {0}, {0})
    \/ InterpretStep
    \/ InterpretReturn
    \/ WriteReturn
    \/ BuildReturn
    \/ LookupItem(AllItems)
    \/ Resolve(AllRefs, MaxWork)
    \/ FactoryCall(OtherKinds)

SpecAll == Init /\ [][NextAll]_vars

(***************************************************************************)
(* Objects made by factory, write and build, and the caller changing what  *)
(* it was handed.                                                          *)
(***************************************************************************)
HeldLines ==
    { Line("sev", "X", "none", <<>>,
           [name |-> "X", sev_name |-> "dhistogram"], [sev_xs |-> <<1>>]),
      Line("agg", "X", "none", SevRef("X"),
           [name |-> "X", freq_name |-> "fixed", exp_en |-> 5], <<>>),
      Line("port", "Y", "none", <<>>,
           [name |-> "A", sev_name |-> "lognorm", freq_name |-> "poisson", exp_en |-> 2],
           <<>>),
      NameLine("Y") }

NextHeld ==
    \/ WriteBegin(HeldLines, MaxWork, {"None"}, {0}, {0})
    \/ BuildBegin(HeldLines, MaxWork, {0}, {0})
    \/ InterpretStep
    \/ WriteReturn
    \/ BuildReturn
    \/ FactoryCall({})
    \/ MutateAnswerSpec(MaxWork + 1)
    \/ MutateObjectSpec(MaxWork + 1)

SpecHeld == Init /\ [][NextHeld]_vars

(***************************************************************************)
(* A program interpreted, and interpreted again by the caller that keeps   *)
(* the list the first run returned.  The knowledge is empty at first or    *)
(* holds one severity read from a database.                                *)
(***************************************************************************)
MaxTwice == 4       \* program lines interpreted in one run, reruns included

TwiceLines ==
    { Line("sev", "X", "none", <<>>,
           [name |-> "X", sev_name |-> "dhistogram"], [sev_xs |-> <<1>>]),
      Line("sev", "X", "none", <<>>,
           [name |-> "X", sev_name |-> "dhistogram"], [sev_xs |-> <<2, 3>>]),
      Line("agg", "X", "none", SevRef("X"),
           [name |-> "X", freq_name |-> "fixed", exp_en |-> 5], <<>>) }

InitTwice ==
    /\ uw = Settings(FALSE, DefaultLog2)
    /\ \/ knowledge = <<>> /\ dicts = <<>> /\ lists = <<>>
       \/ \E line \in {l \in TwiceLines : l.ref = <<>>} : Loaded(line)
    /\ pc = "idle"
    /\ call = NoCall
    /\ ret = Ended("init", <<>>, NoParams, <<>>, Ok(<<>>))
    /\ events = <<>>
    /\ nwork = 0

\* rv2 = uw.interpret_program(P) right after rv = uw.interpret_program(P) returned
InterpretAgain(max) ==
    /\ pc = "idle"
    /\ ret.op = "interpret_program"
    /\ ret.status = "ok"
    /\ nwork + Len(ret.arg) <= max
    /\ pc' = "interp"
    /\ call' = [op |-> "interpret_program", arg |-> ret.arg, par |-> NoParams,
                before |-> knowledge, lines |-> Preprocess(ret.arg), rv |-> <<>>,
                update |-> FALSE, log2 |-> 0, bs |-> 0, prev |-> ret.value]
    /\ ret' = Running("interpret_program", ret.arg, NoParams, knowledge)
    /\ nwork' = nwork + Len(ret.arg)
    /\ events' = <<>>
    /\ UNCHANGED <<uw, knowledge, dicts, lists>>

NextTwice ==
    \/ InterpretBegin(TwiceLines, MaxTwice)
    \/ InterpretAgain(MaxTwice)
    \/ InterpretStep
    \/ InterpretReturn

SpecTwice == InitTwice /\ [][NextTwice]_vars

(***************************************************************************)
(* Helpers of the properties.                                              *)
(***************************************************************************)
LineId(l) == <<l.kind, l.name>>

\* the lines handed to the tokenizer and parser by the current/last call, in order
ParsedLines(evs) ==
    LET ps == SelectSeq(evs, LAMBDA e : e[1] = "parse") IN
    [i \in 1..Len(ps) |-> ps[i][2]]

\* a specification with every reference followed: what a reader of it sees
RECURSIVE DeepDict(_, _, _)
RECURSIVE DeepList(_, _, _, _)
DeepDict(ds, ls, r) ==
    [k \in DOMAIN ds[r] |->
        IF k \in ListKeys THEN DeepList(ds, ls, k, ds[r][k]) ELSE ds[r][k]]
DeepList(ds, ls, k, l) ==
    IF k = "spec"
    THEN [i \in DOMAIN ls[l] |->
            [kind |-> ls[l][i].kind, name |-> ls[l][i].name,
             spec |-> DeepDict(ds, ls, ls[l][i].spec)]]
    ELSE ls[l]

\* the reference names a recognised kind, and its name is stored, but only
\* under other kinds
OnlyOtherKind(kn, buildinid) ==
    LET parts == Split(buildinid) IN
    /\ Len(parts) = 2
    /\ parts[1] \in Kinds
    /\ <<parts[1], parts[2]>> \notin DOMAIN kn
    /\ \E k \in Kinds : <<k, parts[2]>> \in DOMAIN kn

(***************************************************************************)
(* C1.  Round trip: right after interpret_program has inserted the         *)
(* statement declaring (kind, name), uw[(kind, name)] is an Answer with    *)
(* exactly the spec object and the program line of that insertion and no   *)
(* object, whatever the knowledge held before.                             *)
(***************************************************************************)
C1_RoundTrip ==
    (pc = "interp" /\ call.rv # <<>>) =>
        LET a == call.rv[Len(call.rv)] IN
        /\ a.program = Preprocess(call.arg)[Len(call.rv)]
        /\ GetItem(knowledge, TupleItem(a.kind, a.name)) = Ok(a)

\* a redeclaration: the identifier was already in the knowledge of an earlier call
C1_Witness ==
    /\ pc = "interp"
    /\ call.rv # <<>>
    /\ LET a == call.rv[Len(call.rv)] IN
       /\ <<a.kind, a.name>> \in DOMAIN call.before
       /\ call.before[<<a.kind, a.name>>].program # a.program
       /\ \E id \in DOMAIN knowledge : id[2] = a.name /\ id[1] # a.kind

(***************************************************************************)
(* C2.  Reference isolation: whatever is done to a dict that safe_lookup   *)
(* returned, top-level or nested, every specification in the knowledge     *)
(* reads as it did before.                                                 *)
(***************************************************************************)
C2_ReferenceIsolation ==
    [][Resolved /\ knowledge' = knowledge =>
          \A id \in DOMAIN knowledge :
              DeepDict(dicts', lists', knowledge[id].spec)
                  = DeepDict(dicts, lists, knowledge[id].spec)]_vars

(***************************************************************************)
(* C3.  Kind mismatch as claimed: a reference whose name is stored only    *)
(* under another kind makes safe_lookup fail with the kind-mismatch error. *)
(***************************************************************************)
C3_KindMismatchRaised ==
    (pc = "idle" /\ ret.op = "safe_lookup" /\ OnlyOtherKind(ret.before, ret.arg)) =>
        (ret.status = "raise" /\ ret.err = "KindMismatch")

(***************************************************************************)
(* C3, amended.  Such a reference makes safe_lookup fail with the          *)
(* not-found KeyError of the exact (kind, name) lookup; no specification   *)
(* is returned and nothing is copied.                                      *)
(***************************************************************************)
C3_OtherKindNotFound ==
    (pc = "idle" /\ ret.op = "safe_lookup" /\ OnlyOtherKind(ret.before, ret.arg)) =>
        /\ ret.status = "raise"
        /\ ret.exc = "KeyError"
        /\ ret.err = "NotFound"
        /\ ret.value = <<>>

C3_Witness ==
    /\ pc = "idle"
    /\ ret.op = "safe_lookup"
    /\ ret.arg = AggRef("Y")
    /\ <<"port", "Y">> \in DOMAIN ret.before
    /\ OnlyOtherKind(ret.before, ret.arg)

(***************************************************************************)
(* C4.  Ambiguity: a name held by two or more kinds makes uw[name] fail    *)
(* as ambiguous, while uw[(kind, name)] returns the record of each kind    *)
(* that holds it; a name or identifier nobody holds is not found; and the  *)
(* knowledge is what it was before the lookup.                             *)
(***************************************************************************)
Holders(kn, name) == {id \in DOMAIN kn : id[2] = name}

C4_Ambiguity ==
    (pc = "idle" /\ ret.op = "getitem" /\ ret.arg.type # "int") =>
        /\ knowledge = ret.before
        /\ IF ret.arg.type = "str"
           THEN LET h == Holders(knowledge, ret.arg.name) IN
                /\ Cardinality(h) >= 2 =>
                      /\ ret.status = "raise" /\ ret.err = "Ambiguous"
                      /\ ret.value = <<>>
                      /\ \A id \in h :
                            LET g == GetItem(knowledge, TupleItem(id[1], id[2])) IN
                            /\ g.status = "ok"
                            /\ g.value.kind = id[1] /\ g.value.name = id[2]
                            /\ g.value.spec = knowledge[id].spec
                            /\ g.value.program = knowledge[id].program
                /\ h = {} => (ret.status = "raise" /\ ret.err = "NotFound")
           ELSE IF ret.arg.key \in DOMAIN knowledge
                THEN /\ ret.status = "ok"
                     /\ ret.value.kind = ret.arg.key[1]
                     /\ ret.value.name = ret.arg.key[2]
                     /\ ret.value.spec = knowledge[ret.arg.key].spec
                     /\ ret.value.program = knowledge[ret.arg.key].program
                ELSE ret.status = "raise" /\ ret.err = "NotFound"

C4_Witness ==
    /\ pc = "idle"
    /\ ret.op = "getitem"
    /\ ret.arg.type = "str"
    /\ Cardinality(Holders(knowledge, ret.arg.name)) >= 2
    /\ ret.err = "Ambiguous"

(***************************************************************************)
(* C5.  Fail fast with partial progress: when interpret_program raises,    *)
(* the statements handed to the parser are exactly statements 1..k of the  *)
(* program, statement k being the one that failed; no result list is       *)
(* returned; the knowledge is the knowledge of before the call with the    *)
(* records of statements 1..k-1 written over it and nothing else.  A       *)
(* rejected statement is always the last one parsed, and ends the call.    *)
(***************************************************************************)
C5_FailFast ==
    (ret.op = "interpret_program") =>
        LET lines == Preprocess(ret.arg)
            parsed == ParsedLines(events)
            k == Len(parsed)
            done == {LineId(lines[i]) : i \in 1..(k - 1)}
        IN
        /\ \A i \in 1..k :
              parsed[i].fault # "none" => (i = k /\ ret.status = "raise")
        /\ ret.status = "raise" =>
              /\ pc = "idle"
              /\ k \in 1..Len(lines)
              /\ parsed = SubSeq(lines, 1, k)
              /\ ret.value = <<>>
              /\ DOMAIN knowledge = DOMAIN ret.before \cup done
              /\ \A id \in DOMAIN knowledge :
                    IF id \in done
                    THEN LET last == CHOOSE i \in 1..(k - 1) :
                                        /\ LineId(lines[i]) = id
                                        /\ \A j \in (i + 1)..(k - 1) : LineId(lines[j]) # id
                         IN knowledge[id].program = lines[last]
                    ELSE knowledge[id] = ret.before[id]

\* three statements, the second one rejected, something already known before
C5_Witness ==
    /\ ret.op = "interpret_program"
    /\ ret.status = "raise"
    /\ Len(Preprocess(ret.arg)) = 3
    /\ Len(ParsedLines(events)) = 2
    /\ DOMAIN knowledge # {}

(***************************************************************************)
(* Helpers of the properties of write and build.                           *)
(***************************************************************************)
\* the call has ended: returned or raised
Done(ops) == pc = "idle" /\ ret.op \in ops /\ ret.status # "running"

\* the text of the call named exactly one record of the knowledge
TookShortcut == GetItem(ret.before, ProgramItem(ret.arg)).status = "ok"

\* the record a shortcut call was made for
ShortcutId ==
    CHOOSE id \in DOMAIN ret.before : id[2] = ProgramItem(ret.arg).name

IsMixture(line) == "sev_wt" \in DOMAIN line.attrs /\ line.attrs.sev_wt # One

\* every object the call was to make is a severity with a mixture weight other
\* than 1, and every line of its program is one the parser accepts
OnlyMixtures ==
    IF TookShortcut
    THEN ShortcutId[1] = "sev" /\ IsMixture(ret.before[ShortcutId].program)
    ELSE LET lines == Preprocess(ret.arg) IN
         /\ lines # <<>>
         /\ \A i \in DOMAIN lines :
               lines[i].kind = "sev" /\ lines[i].fault = "none" /\ IsMixture(lines[i])

\* the InterpretationResults of an ended write or build
Results == IF ret.op = "write" THEN ret.value ELSE ret.value.rv

\* the update calls in the log, in order
Updates(evs) == SelectSeq(evs, LAMBDA e : e[1] = "update")

RECURSIVE Pow2(_)
Pow2(e) == IF e <= 0 THEN 1 ELSE 2 * Pow2(e - 1)

(***************************************************************************)
(* C6.  Mixture decline never raises: a write or build whose objects are   *)
(* all severities with a mixture weight other than 1 (named by a bare name *)
(* or declared by the program, update on or off) ends without an error,    *)
(* and every result it hands back has no object.                           *)
(***************************************************************************)
C6_MixtureDeclineNeverRaises ==
    (Done({"write", "build"}) /\ OnlyMixtures) =>
        /\ ret.status = "ok"
        /\ \A i \in DOMAIN Results : Results[i].object = None

(***************************************************************************)
(* C7.  Discrete-bucket inference as claimed: for a discrete severity and  *)
(* log2 = 0 the exponent handed to update is the smallest e with 2^e at    *)
(* least the estimated upper bound, and bs is 1.                           *)
(***************************************************************************)
\* the estimated upper bound, read off the program line of the aggregate
LineBound(line) ==
    LET m == SeqMax(line.seqs.sev_xs)
        en == line.attrs.exp_en
    IN IF line.attrs.freq_name = "fixed" THEN m * en
       ELSE IF line.attrs.freq_name = "empirical" THEN m * SeqMax(line.seqs.freq_a)
       ELSE m * en + Isqrt(9 * m * m * en * en * en)

\* build has updated the one aggregate it was called for, in discrete mode
DiscreteUpdate ==
    /\ Done({"build"})
    /\ ret.status = "ok"
    /\ Len(ret.value.rv) = 1
    /\ ret.value.rv[1].kind = "agg"
    /\ ret.value.rv[1].program.attrs.sev_name = "dhistogram"
    /\ Len(Updates(events)) = 1

SmallestExponent(bound) ==
    CHOOSE e \in 0..64 : Pow2(e) >= bound /\ (e = 0 \/ Pow2(e - 1) < bound)

C7_SmallestExponent ==
    (DiscreteUpdate /\ ret.par.log2 = 0) =>
        LET u == Updates(events)[1] IN
        /\ u[3] = SmallestExponent(LineBound(ret.value.rv[1].program))
        /\ u[4] = 1

(***************************************************************************)
(* C7, amended.  For a discrete severity and log2 = 0 the exponent handed  *)
(* to update is one more than the bit length of the truncated estimate:    *)
(* for a bound B >= 1 it is the e with 2^(e-2) <= B < 2^(e-1), and bs is   *)
(* 1.  Outcomes {10, 20, 30} with fixed frequency and expected count 5     *)
(* give the bound 150 and the exponent 9.                                  *)
(***************************************************************************)
C7_BitLengthPlusOne ==
    (DiscreteUpdate /\ ret.par.log2 = 0) =>
        LET u == Updates(events)[1]
            line == ret.value.rv[1].program
            bound == LineBound(line)
        IN
        /\ bound >= 1
        /\ Pow2(u[3] - 2) <= bound
        /\ bound < Pow2(u[3] - 1)
        /\ u[3] >= 2
        /\ u[4] = 1
        /\ (line.attrs.freq_name = "fixed" /\ line.seqs.sev_xs = <<10, 20, 30>>
               /\ line.attrs.exp_en = 5) => (bound = 150 /\ u[3] = 9)

C7_Witness ==
    /\ DiscreteUpdate
    /\ ret.par.log2 = 0
    /\ ret.value.rv[1].program.attrs.freq_name = "fixed"
    /\ ret.value.rv[1].program.seqs.sev_xs = <<10, 20, 30>>
    /\ ret.value.rv[1].program.attrs.exp_en = 5
    /\ Updates(events)[1][3] = 9

(***************************************************************************)
(* C8.  One Portfolio among several results: build hands back that         *)
(* Portfolio's object (its Answer if it has no object), wherever the       *)
(* Portfolio stands among the results.                                     *)
(***************************************************************************)
ThePort(rv) == rv[CHOOSE i \in DOMAIN rv : rv[i].kind = "port"]

C8_OnePortfolioReturned ==
    (Done({"build"}) /\ ret.status = "ok" /\ Len(ret.value.rv) > 1
        /\ PortsFound(ret.value.rv) = 1)
    => LET a == ThePort(ret.value.rv) IN
       IF a.object = None
       THEN ret.value.shape = "answer" /\ ret.value.item.kind = "port"
       ELSE ret.value.shape = "object" /\ ret.value.item.cls = "Portfolio"

(***************************************************************************)
(* C9.  No unique Portfolio: when build has more than one result and the   *)
(* number of Portfolio results is zero or at least two, it hands back the  *)
(* whole list, one result per statement of the program, in statement       *)
(* order.                                                                  *)
(***************************************************************************)
C9_FullSequence ==
    (Done({"build"}) /\ ret.status = "ok" /\ Len(ret.value.rv) > 1
        /\ PortsFound(ret.value.rv) # 1)
    => LET lines == Preprocess(ret.arg) IN
       /\ ret.value.shape = "list"
       /\ Len(ret.value.item) = Len(lines)
       /\ \A i \in DOMAIN lines :
             LET a == ret.value.item[i] IN
             /\ a.kind = lines[i].kind
             /\ a.name = lines[i].name
             /\ a.program = lines[i]
             /\ a = Factory(dicts, lists, Answer(a.kind, a.name, a.spec, a.program, None))

\* two Portfolios, and a third result before them
C9_Witness ==
    /\ Done({"build"})
    /\ ret.status = "ok"
    /\ Len(ret.value.rv) = 3
    /\ PortsFound(ret.value.rv) = 2
    /\ ret.value.rv[1].kind # "port"
    /\ ret.value.shape = "list"

(***************************************************************************)
(* C10.  A single result: build hands back its object if one was made and  *)
(* the Answer itself otherwise, never a list and never None, whether the   *)
(* text was the name of a record or a program of one statement.            *)
(***************************************************************************)
C10_SingleResult ==
    (Done({"build"}) /\ ret.status = "ok" /\ Len(ret.value.rv) = 1)
    => LET a == ret.value.rv[1]
           id == <<a.kind, a.name>>
           declined == a.kind = "sev" /\ IsMixture(a.program)
       IN
       /\ id \in DOMAIN knowledge
       /\ a.spec = knowledge[id].spec
       /\ a.program = knowledge[id].program
       /\ TookShortcut => id = ShortcutId
       /\ ~TookShortcut => Preprocess(ret.arg) = <<a.program>>
       /\ IF declined
          THEN ret.value.shape = "answer" /\ ret.value.item = a /\ a.object = None
          ELSE /\ ret.value.shape = "object"
               /\ ret.value.item = a.object
               /\ a.object # None
               /\ a.object.program = a.program

\* the bare name of a declined mixture severity: the Answer comes back
C10_Witness ==
    /\ Done({"build"})
    /\ ret.status = "ok"
    /\ TookShortcut
    /\ Len(ret.value.rv) = 1
    /\ ret.value.shape = "answer"
    /\ ret.value.item.object = None

(***************************************************************************)
(* Helpers of the properties of the updates made by build.                 *)
(***************************************************************************)
\* the exceptions build is to survive
UpdateFailures == {"ZeroDivisionError", "AttributeError"}

\* the statements of the call whose objects have an update method
Updatable(lines) == {i \in DOMAIN lines : lines[i].kind \in {"agg", "port"}}

\* some update of the call failed, and each failure was one build is to survive
SomeUpdateFailed ==
    /\ \E i \in DOMAIN Updates(events) : Updates(events)[i][5] # "ok"
    /\ \A i \in DOMAIN Updates(events) :
          Updates(events)[i][5] \in UpdateFailures \cup {"ok"}

(***************************************************************************)
(* C11.  Update-failure isolation: a build with update on, in which the    *)
(* update of some object (Aggregate or Portfolio) fails by a division by   *)
(* zero or an attribute error, does not raise; every object that has an    *)
(* update is still updated, in order, and the usual collapsed result is    *)
(* handed back.                                                            *)
(***************************************************************************)
C11_UpdateFailureIsolated ==
    (Done({"build"}) /\ ret.par.update /\ SomeUpdateFailed) =>
        LET lines == Preprocess(ret.arg)
            ups == Updates(events)
        IN
        /\ ret.status = "ok"
        /\ {ups[i][2] : i \in DOMAIN ups} = Updatable(lines)
        /\ Len(ups) = Cardinality(Updatable(lines))
        /\ [shape |-> ret.value.shape, item |-> ret.value.item] = Collapse(ret.value.rv)

(***************************************************************************)
(* C12.  Bare-name shortcut: a write or build whose text is a name held    *)
(* by exactly one kind hands nothing to the parser, makes no insertion and *)
(* no reference lookup, leaves the knowledge as it was, and its one result *)
(* is the factory's result for the kind, name, spec and program line of    *)
(* the stored record.                                                      *)
(***************************************************************************)
C12_BareNameShortcut ==
    (Done({"write", "build"}) /\ TookShortcut) =>
        LET id == ShortcutId
            rec == ret.before[id]
        IN
        /\ ParsedLines(events) = <<>>
        /\ \A i \in DOMAIN events : events[i][1] \in {"factory", "update"}
        /\ events # <<>> /\ events[1] = <<"factory", 1>>
        /\ knowledge = ret.before
        /\ ret.status = "ok" =>
              /\ Len(Results) = 1
              /\ Results[1] = Factory(dicts, lists,
                                      Answer(id[1], id[2], rec.spec, rec.program, None))
              /\ Results[1].program # NameLine(id[2])

\* build by the bare name of a stored portfolio
C12_Witness ==
    /\ Done({"build"})
    /\ TookShortcut
    /\ ret.status = "ok"
    /\ ShortcutId[1] = "port"
    /\ Results[1].object.cls = "Portfolio"
    /\ Cardinality(DOMAIN knowledge) >= 2

(***************************************************************************)
(* C13.  Shortcut fall-through: when the lookup of the text as a name      *)
(* fails, by not-found or by ambiguity, write and build read the text as   *)
(* a program: its lines go to the parser in order; an error of the call    *)
(* comes after the first line was handed to the parser and is never the    *)
(* ambiguity error; and a call that returns has run the factory once on    *)
(* every result, in order.                                                 *)
(***************************************************************************)
LookupError == GetItem(ret.before, ProgramItem(ret.arg)).err

C13_FallThrough ==
    (Done({"write", "build"}) /\ LookupError \in {"NotFound", "Ambiguous"}) =>
        LET lines == Preprocess(ret.arg)
            parsed == ParsedLines(events)
            k == Len(parsed)
            made == SelectSeq(events, LAMBDA e : e[1] = "factory")
        IN
        /\ k <= Len(lines)
        /\ parsed = SubSeq(lines, 1, k)
        /\ ret.status = "raise" => (k >= 1 /\ ret.err # "Ambiguous")
        /\ ret.status = "ok" =>
              /\ k = Len(lines)
              /\ Len(Results) = Len(lines)
              /\ made = [i \in 1..Len(lines) |-> <<"factory", i>>]
              /\ \A i \in DOMAIN Results :
                    LET a == Results[i] IN
                    /\ a.program = lines[i]
                    /\ a = Factory(dicts, lists,
                                   Answer(a.kind, a.name, a.spec, a.program, None))

\* the text is a name two kinds hold
C13_Witness ==
    /\ Done({"write", "build"})
    /\ LookupError = "Ambiguous"
    /\ ParsedLines(events) = Preprocess(ret.arg)
    /\ Len(ParsedLines(events)) = 1

(***************************************************************************)
(* C14.  Unsupported kind: the factory, given an Answer of a kind other    *)
(* than agg, port, sev and distortion, fails and returns no result.        *)
(***************************************************************************)
C14_UnsupportedKindFails ==
    (pc = "idle" /\ ret.op = "factory" /\ ret.arg.kind \notin Kinds) =>
        (ret.status = "raise" /\ ret.value = <<>>)

(***************************************************************************)
(* C15.  Overwrite and key uniqueness: a step of interpret_program that    *)
(* declares (kind, name) leaves exactly one record under that identifier,  *)
(* holding the spec and the program line of this declaration; every other  *)
(* record, the same name under another kind included, is and reads as      *)
(* before; no other step changes the knowledge; and declaring an           *)
(* identifier that is already stored does not fail.                        *)
(***************************************************************************)
C15_Overwrite ==
    [][LET declares == pc = "interp" /\ pc' = "interp"
                           /\ Len(call'.rv) = Len(call.rv) + 1
       IN
       /\ IF declares
          THEN LET line == Head(call.lines)
                   a == call'.rv[Len(call'.rv)]
                   id == <<a.kind, a.name>>
               IN /\ id = LineId(line)
                  /\ DOMAIN knowledge' = DOMAIN knowledge \cup {id}
                  /\ knowledge'[id] = [spec |-> a.spec, program |-> line]
                  /\ Cardinality(Rows(knowledge', TupleItem(id[1], id[2]))) = 1
                  /\ \A o \in DOMAIN knowledge \ {id} :
                        /\ knowledge'[o] = knowledge[o]
                        /\ DeepDict(dicts', lists', knowledge'[o].spec)
                              = DeepDict(dicts, lists, knowledge[o].spec)
          ELSE knowledge' = knowledge
       /\ (pc = "interp" /\ call.lines # <<>> /\ Head(call.lines).fault = "none"
               /\ LineId(Head(call.lines)) \in DOMAIN knowledge) => declares
      ]_<<knowledge, pc, call>>

\* a record written over by another declaration of its identifier, its name
\* being held by another kind as well
C15_Witness ==
    /\ pc = "interp"
    /\ call.rv # <<>>
    /\ LET a == call.rv[Len(call.rv)]
           id == <<a.kind, a.name>>
       IN /\ id \in DOMAIN call.before
          /\ call.before[id].program # a.program
          /\ knowledge[id] = [spec |-> a.spec, program |-> a.program]
          /\ \E o \in DOMAIN call.before :
                o[2] = a.name /\ o[1] # a.kind /\ knowledge[o] = call.before[o]

(***************************************************************************)
(* C16.  The store is never pruned: no step of any operation, failed       *)
(* ones included, takes an identifier out of the knowledge.                *)
(***************************************************************************)
C16_NeverPruned ==
    [][DOMAIN knowledge \subseteq DOMAIN knowledge']_vars

\* a call that failed after it had stored a new identifier
C16_Witness ==
    /\ pc = "idle"
    /\ ret.status = "raise"
    /\ ret.op \in {"interpret_program", "write", "build"}
    /\ DOMAIN ret.before # {}
    /\ DOMAIN ret.before \subseteq DOMAIN knowledge
    /\ DOMAIN knowledge # DOMAIN ret.before

(***************************************************************************)
(* C17.  Malformed reference as claimed: a reference with no '.', or with  *)
(* a kind part that is no recognised kind, makes safe_lookup fail with the *)
(* malformed-reference error; nothing is returned and the knowledge is     *)
(* unchanged.                                                              *)
(***************************************************************************)
NoSeparator(buildinid) == \A i \in DOMAIN buildinid : buildinid[i] # Dot

UnknownKind(buildinid) ==
    Len(Split(buildinid)) = 2 /\ Split(buildinid)[1] \notin Kinds

C17_MalformedReference ==
    (pc = "idle" /\ ret.op = "safe_lookup"
        /\ (NoSeparator(ret.arg) \/ UnknownKind(ret.arg))) =>
        /\ ret.status = "raise"
        /\ ret.err = "MalformedReference"
        /\ ret.value = <<>>
        /\ knowledge = ret.before

(***************************************************************************)
(* C17, amended.  A reference with no '.' makes safe_lookup fail with the  *)
(* malformed-reference error (a ValueError, not the KeyError of a lookup); *)
(* a reference kind.name whose kind part is no recognised kind fails with  *)
(* the not-found KeyError of the (kind, name) lookup, as any absent        *)
(* identifier does; in both cases nothing is returned and the knowledge is *)
(* unchanged.                                                              *)
(***************************************************************************)
C17_UnknownKindNotFound ==
    (pc = "idle" /\ ret.op = "safe_lookup") =>
        /\ NoSeparator(ret.arg) =>
              /\ ret.status = "raise"
              /\ ret.exc = "ValueError" /\ ret.err = "MalformedReference"
              /\ ret.value = <<>>
              /\ knowledge = ret.before
        /\ UnknownKind(ret.arg) =>
              /\ ret.status = "raise"
              /\ ret.exc = "KeyError" /\ ret.err = "NotFound"
              /\ ret.value = <<>>
              /\ knowledge = ret.before

\* the name is stored, the kind part of the reference is no kind at all
C17_Witness ==
    /\ pc = "idle"
    /\ ret.op = "safe_lookup"
    /\ UnknownKind(ret.arg)
    /\ \E id \in DOMAIN knowledge : id[2] = Split(ret.arg)[2]
    /\ ret.err = "NotFound"

(***************************************************************************)
(* C18.  Portfolio parameters: with update on and a caller's log2 other    *)
(* than 0, the log2 handed to the update of a Portfolio is 13 for the      *)
(* sentinel -1 and the caller's log2 otherwise; the bs handed over is the  *)
(* caller's bs if it is not 0 and otherwise best_bucket of the object at   *)
(* the log2 handed over.                                                   *)
(***************************************************************************)
\* the object the factory makes for a statement of the ended call
ObjectOf(line) ==
    Factory(dicts, lists,
            Answer(line.kind, line.name, knowledge[LineId(line)].spec, line, None)).object

C18_PortfolioParameters ==
    (Done({"build"}) /\ ret.par.update /\ ret.par.log2 # 0) =>
        \A i \in DOMAIN Updates(events) :
            LET u == Updates(events)[i]
                line == Preprocess(ret.arg)[u[2]]
            IN line.kind = "port" =>
                 /\ u[3] = (IF ret.par.log2 = -1 THEN 13 ELSE ret.par.log2)
                 /\ u[4] = (IF ret.par.bs # 0 THEN ret.par.bs
                            ELSE BestBucket(ObjectOf(line), u[3]))

\* the sentinel and no bs: best_bucket is asked at 13
C18_Witness ==
    /\ Done({"build"})
    /\ ret.status = "ok"
    /\ ret.par = Params(TRUE, -1, 0)
    /\ \E i \in DOMAIN Updates(events) :
          /\ Preprocess(ret.arg)[Updates(events)[i][2]].kind = "port"
          /\ Updates(events)[i][3] = 13
          /\ Updates(events)[i][4] = BestBucket(None, 13)

(***************************************************************************)
(* C19.  Aggregate, continuous case: for an Aggregate that is not in       *)
(* discrete mode (its severity is not discrete, or the caller gave a log2  *)
(* other than 0) the log2 handed to update is the caller's log2 if it is   *)
(* not 0 and the log2 of the Underwriter otherwise; bs is the caller's bs  *)
(* if it is not 0 and otherwise the rounded recommend_bucket of the object *)
(* at that log2.                                                           *)
(***************************************************************************)
\* build has updated the one aggregate it was called for
AggregateUpdate ==
    /\ Done({"build"})
    /\ ret.status = "ok"
    /\ Len(ret.value.rv) = 1
    /\ ret.value.rv[1].kind = "agg"
    /\ Len(Updates(events)) = 1

Continuous ==
    ret.value.rv[1].program.attrs.sev_name # "dhistogram" \/ ret.par.log2 # 0

C19_ContinuousParameters ==
    (AggregateUpdate /\ Continuous) =>
        LET u == Updates(events)[1] IN
        /\ u[3] = (IF ret.par.log2 # 0 THEN ret.par.log2 ELSE uw.log2)
        /\ u[4] = (IF ret.par.bs # 0 THEN ret.par.bs
                   ELSE RoundBucket(RecommendBucket(ret.value.rv[1].object, u[3])))

\* a discrete severity with a log2 given: no inference, bs from recommend_bucket
C19_Witness ==
    /\ AggregateUpdate
    /\ ret.value.rv[1].program.attrs.sev_name = "dhistogram"
    /\ ret.par = Params(TRUE, 5, 0)
    /\ Updates(events)[1][3] = 5
    /\ Updates(events)[1][4] = RoundBucket(RecommendBucket(ret.value.rv[1].object, 5))

(***************************************************************************)
(* C20.  Discrete mode bound and bucket: for a discrete severity and       *)
(* log2 = 0 the bs handed to update is 1 whatever bs the caller gave, and  *)
(* the exponent is computed from the bound max(sev_xs) * exp_en for a      *)
(* fixed frequency and max(sev_xs) * max(freq_a) for an empirical one.     *)
(***************************************************************************)
C20_DiscreteBoundAndBucket ==
    (DiscreteUpdate /\ ret.par.log2 = 0) =>
        LET u == Updates(events)[1]
            line == ret.value.rv[1].program
            m == SeqMax(line.seqs.sev_xs)
        IN
        /\ u[4] = 1
        /\ line.attrs.freq_name = "fixed" =>
              u[3] = DiscreteLog2(m * line.attrs.exp_en)
        /\ line.attrs.freq_name = "empirical" =>
              u[3] = DiscreteLog2(m * SeqMax(line.seqs.freq_a))

\* an empirical frequency, and a bs given by the caller that is not used
C20_Witness ==
    /\ DiscreteUpdate
    /\ ret.par = Params(TRUE, 0, 2)
    /\ ret.value.rv[1].program.attrs.freq_name = "empirical"
    /\ ret.value.rv[1].program.seqs.sev_xs = <<10, 20, 30>>
    /\ ret.value.rv[1].program.seqs.freq_a = <<0, 1, 2>>
    /\ ret.value.rv[1].program.attrs.exp_en = MaxEn
    /\ Updates(events)[1][3] = DiscreteLog2(60)
    /\ Updates(events)[1][4] = 1

(***************************************************************************)
(* C21.  No spurious updates: build calls update on no Severity and no     *)
(* Distortion, on nothing at all when update is off, and on no result      *)
(* without an object; with update on, each Aggregate and Portfolio the     *)
(* loop comes to is updated exactly once, in the order of the results.     *)
(***************************************************************************)
\* the program lines of the results of the ended call
ResultLines ==
    IF TookShortcut THEN <<ret.before[ShortcutId].program>> ELSE Preprocess(ret.arg)

\* the results whose object is an Aggregate or a Portfolio
UpdatableResults ==
    {i \in DOMAIN ResultLines :
        ObjectOf(ResultLines[i]) # None
            /\ ObjectOf(ResultLines[i]).cls \in {"Aggregate", "Portfolio"}}

C21_NoSpuriousUpdates ==
    Done({"build"}) =>
       LET ups == Updates(events)
           at == [i \in DOMAIN ups |-> ups[i][2]]
       IN
       IF ret.status = "raise" /\ ret.err # "UpdateFailure"
       \* the program was not interpreted to its end: the loop was not reached
       THEN ups = <<>>
       ELSE
       /\ ~ret.par.update => ups = <<>>
       /\ \A i \in DOMAIN ups : at[i] \in UpdatableResults
       /\ \A i, j \in DOMAIN ups : i < j => at[i] < at[j]
       /\ (ret.par.update /\ ret.status = "ok") =>
             {at[i] : i \in DOMAIN ups} = UpdatableResults
       /\ (ret.par.update /\ ret.status = "raise") =>
             /\ ups # <<>>
             /\ ups[Len(ups)][5] = ret.exc
             /\ {at[i] : i \in DOMAIN ups}
                   = {k \in UpdatableResults : k <= at[Len(ups)]}

\* a severity, a distortion and an aggregate built with update on
C21_Witness ==
    /\ Done({"build"})
    /\ ret.status = "ok"
    /\ ret.par.update
    /\ Len(ret.value.rv) = 3
    /\ {ret.value.rv[i].object.cls : i \in 1..3} = {"Severity", "Distortion", "Aggregate"}
    /\ Len(Updates(events)) = 1

(***************************************************************************)
(* C22.  Construction leaves the store alone and independent: a call of    *)
(* factory, or of write or build by a bare name, changes no record of the  *)
(* knowledge, and nothing done afterwards to the returned Answer, or to    *)
(* the specifications a Portfolio was made from, changes what the          *)
(* knowledge holds: every stored specification reads as before.            *)
(***************************************************************************)
StoreReadsSame ==
    /\ knowledge' = knowledge
    /\ \A id \in DOMAIN knowledge :
          DeepDict(dicts', lists', knowledge[id].spec)
              = DeepDict(dicts, lists, knowledge[id].spec)

C22_ConstructionIndependent ==
    [][(pc = "idle" /\ pc' = "idle" /\ ret'.op \in {"factory", "write", "build"}
           /\ ret'.status = "ok") => StoreReadsSame]_vars

(***************************************************************************)
(* C23.  Interpreter output: while interpret_program runs, parsing and     *)
(* inserting alternate, the statement parsed being inserted before the     *)
(* next one is parsed; when it returns, it returns one Answer per          *)
(* statement of the preprocessed program, in the order of the statements,  *)
(* each with the kind and name its statement declares, the statement as    *)
(* its program, the spec now stored for a statement not declared again     *)
(* later, and no object.                                                   *)
(***************************************************************************)
\* the parse and insert events of the call, in order
ParseInsert(evs) == SelectSeq(evs, LAMBDA e : e[1] \in {"parse", "insert"})

C23_InterpreterOutput ==
    (ret.op = "interpret_program") =>
        LET lines == Preprocess(ret.arg)
            core == ParseInsert(events)
        IN
        /\ \A j \in DOMAIN core :
              LET i == (j + 1) \div 2 IN
              /\ i <= Len(lines)
              /\ core[j] = (IF j % 2 = 1 THEN <<"parse", lines[i]>>
                            ELSE <<"insert", LineId(lines[i])>>)
        /\ ret.status = "ok" =>
              /\ Len(core) = 2 * Len(lines)
              /\ Len(ret.value) = Len(lines)
              /\ \A i \in DOMAIN lines :
                    LET a == ret.value[i] IN
                    /\ a.kind = lines[i].kind
                    /\ a.name = lines[i].name
                    /\ a.program = lines[i]
                    /\ a.object = None
                    /\ (\A j \in (i + 1)..Len(lines) : LineId(lines[j]) # LineId(lines[i]))
                          => a.spec = knowledge[LineId(lines[i])].spec

\* a program with an empty line and two statements, the second referring to the first
C23_Witness ==
    /\ pc = "idle"
    /\ ret.op = "interpret_program"
    /\ ret.status = "ok"
    /\ Len(ret.arg) = 3
    /\ Len(ret.value) = 2
    /\ ret.value[1].kind = "sev"
    /\ ret.value[2].kind = "agg"

(***************************************************************************)
(* C24.  Reference ordering within one program: in one call, a statement   *)
(* that refers to an identifier declared by an earlier statement of the    *)
(* same program is stored with the entries of that earlier statement (the  *)
(* latest one before it); a statement that refers to an identifier that    *)
(* was not in the knowledge when the call began and that no earlier        *)
(* statement declares ends the call with the not-found KeyError, also      *)
(* when a later statement declares it, and also when the call is a write   *)
(* or a build.                                                             *)
(***************************************************************************)
RefId(line) == <<Split(line.ref)[1], Split(line.ref)[2]>>

\* the statements before statement k that declare what statement k refers to
DeclaredEarlier(lines, k) == {j \in 1..(k - 1) : LineId(lines[j]) = RefId(lines[k])}

\* statement k took over the entries of statement j
TookOver(lines, k, j) ==
    LET sk == DeepDict(dicts, lists, knowledge[LineId(lines[k])].spec) IN
    /\ \A key \in DOMAIN lines[j].seqs :
          key \in DOMAIN sk /\ sk[key] = lines[j].seqs[key]
    /\ \A key \in DOMAIN lines[j].attrs \ DOMAIN lines[k].attrs :
          key \in DOMAIN sk /\ sk[key] = lines[j].attrs[key]

C24_ReferenceOrdering ==
    (ret.op \in {"interpret_program", "write", "build"}) =>
        LET lines == Preprocess(ret.arg)
            parsed == ParsedLines(events)
        IN \A k \in DOMAIN parsed :
             (parsed[k] = lines[k] /\ lines[k].fault = "none" /\ lines[k].ref # <<>>) =>
                LET earlier == DeclaredEarlier(lines, k) IN
                IF earlier # {}
                THEN LET j == CHOOSE x \in earlier : \A y \in earlier : y <= x IN
                     /\ LineId(lines[k]) \in DOMAIN knowledge
                     /\ (k = Len(parsed) /\ lines[j].ref = <<>>) => TookOver(lines, k, j)
                ELSE RefId(lines[k]) \notin DOMAIN ret.before =>
                         /\ pc = "idle"
                         /\ ret.status = "raise"
                         /\ ret.exc = "KeyError" /\ ret.err = "NotFound"
                         /\ Len(parsed) = k

\* build of a program whose first statement refers to what its second declares
C24_Witness ==
    /\ pc = "idle"
    /\ ret.op = "build"
    /\ ret.status = "raise"
    /\ ret.err = "NotFound"
    /\ Len(Preprocess(ret.arg)) >= 2
    /\ Preprocess(ret.arg)[1].ref # <<>>
    /\ LineId(Preprocess(ret.arg)[2]) = RefId(Preprocess(ret.arg)[1])
    /\ RefId(Preprocess(ret.arg)[1]) \notin DOMAIN ret.before

(***************************************************************************)
(* C25.  Idempotence of interpretation: when interpret_program(P) has      *)
(* returned and no statement of P refers to an identifier that a later     *)
(* statement of P declares, interpreting P again does not fail, returns    *)
(* a list that reads the same, result by result, and leaves a knowledge    *)
(* that reads the same as after the first run.                             *)
(***************************************************************************)
NoForwardRef(lines) ==
    \A k \in DOMAIN lines :
        lines[k].ref # <<>> =>
            \A j \in (k + 1)..Len(lines) : LineId(lines[j]) # RefId(lines[k])

\* the call running is the second run of its program
Rerun == pc = "interp" /\ "prev" \in DOMAIN call

SameResults(ds, ls, rv1, rv2) ==
    /\ Len(rv1) = Len(rv2)
    /\ \A i \in DOMAIN rv1 :
          /\ rv1[i].kind = rv2[i].kind
          /\ rv1[i].name = rv2[i].name
          /\ rv1[i].program = rv2[i].program
          /\ rv1[i].object = rv2[i].object
          /\ DeepDict(ds, ls, rv1[i].spec) = DeepDict(ds, ls, rv2[i].spec)

SameStore(ds, ls, kn1, kn2) ==
    /\ DOMAIN kn1 = DOMAIN kn2
    /\ \A id \in DOMAIN kn1 :
          /\ kn1[id].program = kn2[id].program
          /\ DeepDict(ds, ls, kn1[id].spec) = DeepDict(ds, ls, kn2[id].spec)

C25_Idempotent ==
    [][(Rerun /\ NoForwardRef(Preprocess(call.arg))) =>
          /\ ret'.status # "raise"
          /\ pc' = "idle" =>
                /\ ret'.status = "ok"
                /\ SameResults(dicts', lists', call.prev, ret'.value)
                /\ SameStore(dicts', lists', call.before, knowledge')]_vars

\* the second run of a program of two statements, the second referring to the
\* first, has come to its end
C25_Witness ==
    /\ Rerun
    /\ call.lines = <<>>
    /\ Len(call.rv) = 2
    /\ call.rv[2].program.ref # <<>>
    /\ RefId(call.rv[2].program) = LineId(call.rv[1].program)
    /\ call.rv[1].spec # call.prev[1].spec
    /\ SameResults(dicts, lists, call.prev, call.rv)

(***************************************************************************)
(* C26.  Positive resolution: the log2 of the Underwriter is greater than  *)
(* 0, and a build with update on and log2 left at 0 hands a log2 greater   *)
(* than 0 to the update of every Aggregate and of every Portfolio.         *)
(***************************************************************************)
C26_PositiveResolution ==
    /\ uw.log2 > 0
    /\ (Done({"build"}) /\ ret.par.update /\ ret.par.log2 = 0) =>
          \A i \in DOMAIN Updates(events) : Updates(events)[i][3] > 0

(***************************************************************************)
(* C27.  Discrete grid is sufficient: in discrete mode, with an estimated  *)
(* upper bound B >= 1, the exponent e handed to update has 2^e >= B, also  *)
(* when B is a power of two.                                               *)
(***************************************************************************)
C27_GridCoversBound ==
    (DiscreteUpdate /\ ret.par.log2 = 0) =>
        LET u == Updates(events)[1]
            bound == LineBound(ret.value.rv[1].program)
        IN bound >= 1 => (u[4] = 1 /\ Pow2(u[3]) >= bound)

\* bounds that are powers of two, up to 64
IsPow2(n) == \E e \in 0..16 : Pow2(e) = n

C27_Witness ==
    /\ DiscreteUpdate
    /\ ret.par.log2 = 0
    /\ LineBound(ret.value.rv[1].program) = 64
    /\ IsPow2(LineBound(ret.value.rv[1].program))
    /\ Pow2(Updates(events)[1][3]) >= 64

(***************************************************************************)
(* C28.  Empty program: a build whose text is no stored name and has no    *)
(* statement once preprocessed returns None and not an empty list, calls   *)
(* neither the parser nor factory nor any update, and leaves the knowledge *)
(* as it was.                                                              *)
(***************************************************************************)
C28_EmptyProgram ==
    (Done({"build"}) /\ ~TookShortcut /\ Preprocess(ret.arg) = <<>>) =>
        /\ ret.status = "ok"
        /\ ret.value.shape = "None"
        /\ ret.value.shape # "list"
        /\ events = <<>>
        /\ knowledge = ret.before

\* a text of empty lines built on a knowledge that holds something
C28_Witness ==
    /\ Done({"build"})
    /\ ~TookShortcut
    /\ ret.arg # <<>>
    /\ Preprocess(ret.arg) = <<>>
    /\ ret.value.shape = "None"
    /\ DOMAIN knowledge # {}

====
